---- MODULE Spec2Model ----
(***************************************************************************)
(* Model of hateheif.py: a maubot plugin whose passive handler converts    *)
(* "image/heic" media messages to JPEG and republishes them, plain or      *)
(* encrypted as the inbound message was.                                   *)
(*                                                                         *)
(* Python optionals are sequences of length at most one: None is <<>> and  *)
(* a present value x is <<x>>.  Code between two awaits of one coroutine   *)
(* runs atomically (asyncio), so every action below runs a handler from    *)
(* one suspension point to the next.                                       *)
(***************************************************************************)
EXTENDS Integers, Sequences, FiniteSets, TLC

\* ------------------------------------------------------------------ bounds
NumSlots == 2   \* handler coroutines the host can hold
MaxRuns == 2    \* handler invocations in one behaviour
NumKeys == 2    \* distinct AES keys
NumIVs == 2     \* distinct initialisation vectors

Slots == 1..NumSlots
Keys == 1..NumKeys
IVs == 1..NumIVs

None == <<>>
Some(x) == <<x>>

\* ------------------------------------------------------------------ bytes
\* A byte buffer is what it decodes to (body), possibly wrapped in AES-CTR
\* under (key, iv).  key = 0 and iv = 0 mark a buffer that is no ciphertext.
Junk == [fmt |-> "junk", w |-> 0, h |-> 0, mode |-> ""]
HeicImage(w, h, mode) == [fmt |-> "heic", w |-> w, h |-> h, mode |-> mode]
HeicImages == {HeicImage(2, 1, "RGB"), HeicImage(1, 2, "RGBA")}
Bodies == HeicImages \cup {Junk}
Plain(body) == [enc |-> FALSE, key |-> 0, iv |-> 0, body |-> body]
Cipher(body, k, v) == [enc |-> TRUE, key |-> k, iv |-> v, body |-> body]
NoBytes == Plain([fmt |-> "", w |-> 0, h |-> 0, mode |-> ""])
PlainBlobs == {Plain(b) : b \in Bodies}
CipherBlobs == {Cipher(b, k, v) : b \in Bodies, k \in Keys, v \in IVs}
\* what the media store may answer a download with: it is not trusted
Blobs == PlainBlobs \cup CipherBlobs

\* SHA-256 of a buffer: deterministic and collision free
sha256(bytes) == [alg |-> "sha256", of |-> bytes]

\* ------------------------------------------------------------------ events
RoomIds == {"!abc:example.org", "!xyz:example.org"}
MsgTypes == {"m.image", "m.file", "m.text"}
MimeTypes == {Some("image/heic"), Some("image/HEIC"), Some("image/heif"),
              Some("image/heic "), None}
DeclaredSizes == {<<1, 2>>, <<3, 3>>}
ImageInfos == {[mimetype |-> m, width |-> d[1], height |-> d[2]] :
                 m \in MimeTypes, d \in DeclaredSizes}
PlainUrl == "mxc://example.org/plain"
FileUrl == "mxc://example.org/enc"
\* EncryptedFile: key is the key material (file.key.key in the source)
EncryptedFile(u, k, v, h) ==
    [url |-> u, key |-> k, iv |-> v, hashes |-> [sha256 |-> h], version |-> "v2"]
\* The inbound references: key and iv are fixed (keys are interchangeable),
\* the stored hash is that of any ciphertext, made under this key or another.
EncryptedFiles == {EncryptedFile(Some(FileUrl), 1, 1, sha256(c)) :
                     c \in CipherBlobs}
SomeFile == EncryptedFile(Some(FileUrl), 1, 1,
                          sha256(Cipher(HeicImage(2, 1, "RGB"), 1, 1)))
\* url and file of a content: without a url any reference or none, with a
\* url (empty or not) no reference or one
References ==
    {[url |-> None, file |-> f] :
       f \in {None} \cup {Some(x) : x \in EncryptedFiles}}
    \cup {[url |-> u, file |-> f] :
            u \in {Some(""), Some(PlainUrl)}, f \in {None, Some(SomeFile)}}
Contents == {[msgtype |-> t, info |-> i, url |-> r.url, file |-> r.file] :
               t \in MsgTypes,
               i \in {None} \cup {Some(x) : x \in ImageInfos},
               r \in References}
Events == {[room_id |-> r, content |-> c] : r \in RoomIds, c \in Contents}
NoEvent == [room_id |-> "", content |-> [msgtype |-> "", info |-> None,
                                         url |-> None, file |-> None]]

\* the values the "rooms" option of the configuration may hold
Configs == {None, Some({}), Some({"!abc:example.org"})}

\* ------------------------------------------------------- library functions
\* mautrix.crypto.attachments.decrypt_attachment(ciphertext, key, hash, iv):
\* raises when the SHA-256 of the ciphertext is not the stored hash, else
\* runs AES-CTR, which yields the plaintext only under the right key and iv.
decrypt_attachment(ciphertext, key, hash, iv) ==
    IF sha256(ciphertext) # hash
    THEN [ok |-> FALSE, bytes |-> NoBytes]
    ELSE [ok |-> TRUE,
          bytes |-> IF ciphertext.enc /\ ciphertext.key = key /\ ciphertext.iv = iv
                    THEN Plain(ciphertext.body)
                    ELSE Plain(Junk)]

\* attachments.encrypt_attachment(plaintext), the generated key and iv being
\* k and v: the pair (ciphertext, EncryptedFile without url).
encrypt_attachment(plaintext, k, v) ==
    LET c == Cipher(plaintext.body, k, v)
    IN  <<c, EncryptedFile(None, k, v, sha256(c))>>

\* PIL.Image.open(BytesIO(bytes)): fails on bytes that are no image.
Image_open(bytes) ==
    IF bytes.enc \/ bytes.body.fmt \notin {"heic", "jpeg"}
    THEN [ok |-> FALSE, format |-> "", size |-> <<0, 0>>, mode |-> ""]
    ELSE [ok |-> TRUE, format |-> bytes.body.fmt,
          size |-> <<bytes.body.w, bytes.body.h>>, mode |-> bytes.body.mode]

\* image.save(out, format="JPEG"); out.getvalue(): JPEG has no alpha
\* channel, so an RGBA image is refused; the pixel size is kept.
Image_save_jpeg(image) ==
    IF image.mode # "RGB"
    THEN [ok |-> FALSE, bytes |-> NoBytes]
    ELSE [ok |-> TRUE,
          bytes |-> Plain([fmt |-> "jpeg", w |-> image.size[1],
                           h |-> image.size[2], mode |-> "RGB"])]

Call(fn, ok) == [fn |-> fn, ok |-> ok]

\* ------------------------------------------------------------------ state
VARIABLES
    cfg,        \* the "rooms" option of the configuration
    rooms,      \* self.rooms
    started,    \* start() has run
    runs,       \* handler invocations so far
    nextUri,    \* locators the media store has handed out
    frame       \* per slot: the coroutine frame of one hate_heif_message call

vars == <<cfg, rooms, started, runs, nextUri, frame>>

\* The frame of a handler that is not running.
\*   pc        idle, await_download, await_upload, await_send, returned, raised
\*   outcome   which return statement or which exception ended the call
\*   evt       the event; evt.content is the object the handler writes to
\*   evt0      the event as the host delivered it
\*   fetch     the download function entered
\*   raw       the bytes download_media returned
\*   data, is_enc, img, img_enc   the locals (None while unassigned)
\*   publish   the send function entered
\*   uploading, sending   arguments of the upload_media / send_message in flight
\*   calls     collaborator and library calls so far, with their result
\*   uploads   upload_media calls that returned, with the locator
\*   sent      send_message calls that returned
\*   log       log lines
IdleFrame ==
    [pc |-> "idle", outcome |-> "", evt |-> NoEvent, evt0 |-> NoEvent,
     fetch |-> "",
     raw |-> NoBytes, data |-> NoBytes, is_enc |-> None, img |-> NoBytes,
     img_enc |-> None, publish |-> "", uploading |-> None, sending |-> None,
     calls |-> <<>>, uploads |-> <<>>, sent |-> <<>>, log |-> <<>>]

Init ==
    /\ cfg \in Configs
    /\ rooms = None
    /\ started = FALSE
    /\ runs = 0
    /\ nextUri = 0
    /\ frame = [i \in Slots |-> IdleFrame]

\* HateHeifBot.start: an empty or absent rooms option is stored as None
start ==
    /\ ~started
    /\ started' = TRUE
    /\ rooms' = IF cfg # None /\ cfg[1] # {} THEN cfg ELSE None
    /\ UNCHANGED <<cfg, runs, nextUri, frame>>

\* ------------------------------------------------------- eligibility filter
\* RoomInScope with an unset allow-list read as "no room is in scope"
RoomInScope_listed_only(rms, room_id) ==
    rms # None /\ room_id \in rms[1]

\* lines 134-135: "if self.rooms: if evt.room_id not in self.rooms"
RoomInScope(rms, room_id) ==
    IF rms # None /\ rms[1] # {} THEN room_id \in rms[1] ELSE TRUE

\* line 140
IsMediaType(msgtype) == msgtype = "m.image" \/ msgtype = "m.file"

\* IsHeic comparing without regard to case
IsHeic_any_case(mimetype) ==
    mimetype \in {Some("image/heic"), Some("image/HEIC")}

\* line 147
IsHeic(mimetype) == mimetype = Some("image/heic")

\* Python truth value of an optional string or object: None and "" are false
Truthy(x) == x # None /\ x[1] # ""

\* FetchBranch looking at content.file before content.url
FetchBranch_file_first(content) ==
    IF content.file # None THEN "download_encrypted_media"
    ELSE IF Truthy(content.url) THEN "download_unencrypted_media"
    ELSE ""

\* FetchBranch treating a content without url and file as a plain one
FetchBranch_default_plain(content) ==
    IF content.file # None /\ ~Truthy(content.url)
    THEN "download_encrypted_media"
    ELSE "download_unencrypted_media"

\* lines 150-158: which download function the content selects
FetchBranch(content) ==
    IF Truthy(content.url) THEN "download_unencrypted_media"
    ELSE IF content.file # None THEN "download_encrypted_media"
    ELSE ""

Return(f, how, lines) ==
    [f EXCEPT !.pc = "returned", !.outcome = how, !.log = @ \o lines]
\* Raise caught by the handler and turned into a plain return
Raise_as_return(f, exc) == [f EXCEPT !.pc = "returned", !.outcome = exc]

\* an exception leaves the handler
Raise(f, exc) == [f EXCEPT !.pc = "raised", !.outcome = exc]

\* lines 133-158, from the call of the handler to its first await: the
\* frame of a handler entered with event e while self.rooms is rms
Enter(rms, e) ==
    LET f == [IdleFrame EXCEPT !.evt = e, !.evt0 = e]
        c == e.content
    IN  IF ~RoomInScope(rms, e.room_id)
        THEN Return(f, "not_in_rooms", <<"debug">>)
        ELSE IF ~IsMediaType(c.msgtype)
        THEN Return(f, "not_media", <<>>)
        ELSE IF c.info = None     \* line 144 reads content.info.mimetype
        THEN Raise(f, "AttributeError")
        ELSE IF ~IsHeic(c.info[1].mimetype)
        THEN Return(f, "not_heic", <<"debug">>)
        ELSE IF FetchBranch(c) = ""
        THEN Return(f, "no_file", <<"debug", "warning">>)
        ELSE [f EXCEPT !.pc = "await_download", !.fetch = FetchBranch(c),
                       !.log = <<"debug">>]

\* hate_heif_message skipping an event it has been called with before
hate_heif_message_dedup(i, e) ==
    /\ started
    /\ runs < MaxRuns
    /\ frame[i].pc = "idle"
    /\ runs' = runs + 1
    /\ frame' = [frame EXCEPT ![i] =
                   IF \E j \in Slots : frame[j].evt0 = e
                   THEN Return([IdleFrame EXCEPT !.evt = e, !.evt0 = e],
                               "duplicate", <<>>)
                   ELSE Enter(rooms, e)]
    /\ UNCHANGED <<cfg, rooms, started, nextUri>>

\* the host calls hate_heif_message(evt) in slot i
hate_heif_message(i, e) ==
    /\ started
    /\ runs < MaxRuns
    /\ frame[i].pc = "idle"
    /\ runs' = runs + 1
    /\ frame' = [frame EXCEPT ![i] = Enter(rooms, e)]
    /\ UNCHANGED <<cfg, rooms, started, nextUri>>

\* ------------------------------------------------------------------ fetch
Called(f, fn, ok) == [f EXCEPT !.calls = Append(@, Call(fn, ok))]

\* Decrypted with the digest of the received bytes in place of the stored one
Decrypted_unverified(file, bytes) ==
    decrypt_attachment(bytes, file.key, sha256(bytes), file.iv)

\* lines 30-35, download_encrypted_media once download_media returned bytes
Decrypted(file, bytes) ==
    decrypt_attachment(bytes, file.key, file.hashes.sha256, file.iv)

\* lines 150-155 after the await: download_media failed (ok = FALSE) or
\* returned bytes
Fetched(f, ok, bytes) ==
    LET f1 == Called(f, "download_media", ok)
        f2 == [f1 EXCEPT !.raw = bytes]
    IN  IF ~ok THEN Raise(f1, "download_media")
        ELSE IF f.fetch = "download_unencrypted_media"
        THEN [f2 EXCEPT !.data = bytes, !.is_enc = Some(FALSE)]
        ELSE LET d == Decrypted(f.evt.content.file[1], bytes)
                 f3 == Called(f2, "decrypt_attachment", d.ok)
             IN  IF ~d.ok THEN Raise(f3, "decrypt_attachment")
                 ELSE [f3 EXCEPT !.data = d.bytes, !.is_enc = Some(TRUE)]

\* ---------------------------------------------------------------- convert
\* SetSize leaving the declared size in place
SetSize_declared(info, size) == info

\* lines 168-169: the handler writes the measured size into content.info
SetSize(info, size) == [info EXCEPT !.width = size[1], !.height = size[2]]

\* Converted falling back to the fetched bytes when the JPEG cannot be written
Converted_fallback(f) ==
    LET img_in == Image_open(f.data)
        f1 == Called(f, "Image.open", img_in.ok)
        out == Image_save_jpeg(img_in)
        f2 == Called(f1, "Image.save", out.ok)
    IN  IF f.pc \in {"raised", "returned"} THEN f
        ELSE IF ~img_in.ok THEN Raise(f1, "Image.open")
        ELSE IF ~out.ok THEN [f2 EXCEPT !.img = f.data]
        ELSE [Called(f2, "Image.open", TRUE) EXCEPT
                !.img = out.bytes,
                !.evt.content.info = Some(SetSize(@[1], img_in.size))]

\* lines 161-169
Converted(f) ==
    LET img_in == Image_open(f.data)
        f1 == Called(f, "Image.open", img_in.ok)
        out == Image_save_jpeg(img_in)
        f2 == Called(f1, "Image.save", out.ok)
        img_tst == Image_open(out.bytes)
        f3 == Called(f2, "Image.open", img_tst.ok)
    IN  IF f.pc \in {"raised", "returned"} THEN f
        ELSE IF ~img_in.ok THEN Raise(f1, "Image.open")
        ELSE IF ~out.ok THEN Raise(f2, "Image.save")
        ELSE IF ~img_tst.ok THEN Raise(f3, "Image.open")
        ELSE [f3 EXCEPT !.img = out.bytes,
                        !.log = @ \o <<"debug", "debug">>,
                        !.evt.content.info =
                            Some(SetSize(@[1], img_tst.size))]

\* ---------------------------------------------------------------- publish
\* PublishBranch with the two branches exchanged
PublishBranch_swapped(flag) ==
    IF flag THEN "send_unencrypted_message" ELSE "send_encrypted_message"

\* line 171: the send function the flag selects
PublishBranch(flag) ==
    IF flag THEN "send_encrypted_message" ELSE "send_unencrypted_message"

\* lines 61-65 and 96-100: the arguments of upload_media
UploadArgs(bytes) ==
    [data |-> bytes, mime_type |-> "image/jpeg", filename |-> "image.jpg"]

\* lines 171-186 with lines 61 and 96, up to the await of upload_media;
\* k and v are the key and iv encrypt_attachment generates
Publishing(f, k, v) ==
    IF f.pc \in {"raised", "returned"} THEN f
    ELSE IF PublishBranch(f.is_enc[1]) = "send_encrypted_message"
    THEN LET e == encrypt_attachment(f.img, k, v)
             f1 == Called(f, "encrypt_attachment", TRUE)
         IN  [f1 EXCEPT !.pc = "await_upload", !.img_enc = e,
                        !.publish = "send_encrypted_message",
                        !.uploading = Some(UploadArgs(e[1]))]
    ELSE [f EXCEPT !.pc = "await_upload",
                   !.publish = "send_unencrypted_message",
                   !.uploading = Some(UploadArgs(f.img))]

\* download_media returns or fails in slot i; the handler runs to its next
\* await
download_media(i, ok, bytes, k, v) ==
    /\ frame[i].pc = "await_download"
    /\ frame' = [frame EXCEPT
                   ![i] = Publishing(Converted(Fetched(@, ok, bytes)), k, v)]
    /\ UNCHANGED <<cfg, rooms, started, runs, nextUri>>

\* the locator the media store hands out for its n-th upload
Uri(n) == "mxc://example.org/up" \o ToString(n)

\* ImageInfo handing on the inbound info, declared MIME type included
ImageInfo_inbound(info) == info

\* lines 76-80 and 105-109
ImageInfo(info) ==
    [mimetype |-> Some("image/jpeg"), width |-> info.width,
     height |-> info.height]

\* EncryptedContent built like the plain message: locator in the top-level url
EncryptedContent_plain_url(e, uri, info) ==
    [msgtype |-> "m.image", body |-> "image.jpg", url |-> Some(uri),
     file |-> None, info |-> Some(ImageInfo(info))]

\* lines 66-81
EncryptedContent(e, uri, info) ==
    [msgtype |-> "m.image", body |-> "image.jpg", url |-> None,
     file |-> Some(EncryptedFile(Some(uri), e[2].key, e[2].iv,
                                 e[2].hashes.sha256)),
     info |-> Some(ImageInfo(info))]

\* lines 101-110
UnencryptedContent(uri, info) ==
    [msgtype |-> "m.image", body |-> "image.jpg", url |-> Some(uri),
     file |-> None, info |-> Some(ImageInfo(info))]

\* Message addressed to the room of the call in the first slot, as a handler
\* that kept its event on the plugin instance would address it
Message_shared_event(f, uri) ==
    [room_id |-> frame[1].evt.room_id,
     content |-> IF f.publish = "send_encrypted_message"
                 THEN EncryptedContent(f.img_enc, uri, f.evt.content.info[1])
                 ELSE UnencryptedContent(uri, f.evt.content.info[1])]

\* Message reusing the inbound EncryptedFile with the new locator put in
Message_inbound_file(f, uri) ==
    [room_id |-> f.evt.room_id,
     content |-> IF f.publish = "send_encrypted_message"
                 THEN [EncryptedContent(f.img_enc, uri, f.evt.content.info[1])
                          EXCEPT !.file = Some([f.evt.content.file[1]
                                                  EXCEPT !.url = Some(uri)])]
                 ELSE UnencryptedContent(uri, f.evt.content.info[1])]

\* lines 66-81 and 101-110: the arguments of send_message
Message(f, uri) ==
    [room_id |-> f.evt.room_id,
     content |-> IF f.publish = "send_encrypted_message"
                 THEN EncryptedContent(f.img_enc, uri, f.evt.content.info[1])
                 ELSE UnencryptedContent(uri, f.evt.content.info[1])]

\* Uploaded going on to send_message when upload_media failed
Uploaded_send_anyway(f, ok, uri) ==
    LET f1 == [Called(f, "upload_media", ok) EXCEPT !.uploading = None]
        f2 == [f1 EXCEPT !.pc = "await_send", !.sending = Some(Message(f, uri))]
    IN  IF ~ok THEN f2
        ELSE [f2 EXCEPT !.uploads = Append(@, [args |-> f.uploading[1],
                                               uri |-> uri])]

\* lines 61-82 and 96-111 after the await of upload_media, up to the await
\* of send_message
Uploaded(f, ok, uri) ==
    LET f1 == [Called(f, "upload_media", ok) EXCEPT !.uploading = None]
    IN  IF ~ok THEN Raise(f1, "upload_media")
        ELSE [f1 EXCEPT !.pc = "await_send",
                        !.uploads = Append(@, [args |-> f.uploading[1],
                                               uri |-> uri]),
                        !.sending = Some(Message(f, uri))]

upload_media(i, ok) ==
    /\ frame[i].pc = "await_upload"
    /\ nextUri' = IF ok THEN nextUri + 1 ELSE nextUri
    /\ frame' = [frame EXCEPT ![i] = Uploaded(@, ok, Uri(nextUri + 1))]
    /\ UNCHANGED <<cfg, rooms, started, runs>>

\* Sent calling send_message again when it failed
Sent_retry(f, ok) ==
    LET f1 == Called(f, "send_message", ok)
    IN  IF ~ok THEN f1
        ELSE Return([f1 EXCEPT !.sending = None,
                               !.sent = Append(@, f.sending[1])], "sent", <<>>)

\* Sent recording the message twice, as a handler that sends it again would
Sent_twice(f, ok) ==
    LET f1 == [Called(f, "send_message", ok) EXCEPT !.sending = None]
    IN  IF ~ok THEN Raise(f1, "send_message")
        ELSE Return([f1 EXCEPT !.sent = @ \o <<f.sending[1], f.sending[1]>>],
                    "sent", <<>>)

\* lines 82 and 111 after the await of send_message
Sent(f, ok) ==
    LET f1 == [Called(f, "send_message", ok) EXCEPT !.sending = None]
    IN  IF ~ok THEN Raise(f1, "send_message")
        ELSE Return([f1 EXCEPT !.sent = Append(@, f.sending[1])], "sent", <<>>)

send_message(i, ok) ==
    /\ frame[i].pc = "await_send"
    /\ frame' = [frame EXCEPT ![i] = Sent(@, ok)]
    /\ UNCHANGED <<cfg, rooms, started, runs, nextUri>>

\* the host drops the finished call and its event
Discard(i) ==
    /\ frame[i].pc \in {"returned", "raised"}
    /\ frame' = [frame EXCEPT ![i] = IdleFrame]
    /\ UNCHANGED <<cfg, rooms, started, runs, nextUri>>

\* ------------------------------------------------------------ specification
\* The host delivers one event at a time and runs the call in the first
\* slot.
Deliver(i) ==
    /\ \A j \in Slots : i <= j /\ frame[j].pc = "idle"
    /\ \E e \in Events : hate_heif_message(i, e)

\* encrypt_attachment draws key and iv from the system's random source: a
\* fresh key is none the inbound reference carries, and likewise the iv
FreshKeys(f) ==
    {k \in Keys : f.evt0.content.file = None \/ f.evt0.content.file[1].key # k}
FreshIVs(f) ==
    {v \in IVs : f.evt0.content.file = None \/ f.evt0.content.file[1].iv # v}

DownloadDone(i) ==
    \/ download_media(i, FALSE, NoBytes, 1, 1)
    \/ \E bytes \in Blobs, k \in FreshKeys(frame[i]), v \in FreshIVs(frame[i]) :
           download_media(i, TRUE, bytes, k, v)

UploadDone(i) == \E ok \in BOOLEAN : upload_media(i, ok)

SendDone(i) == \E ok \in BOOLEAN : send_message(i, ok)

Next ==
    \/ start
    \/ \E i \in Slots : Deliver(i)
    \/ \E i \in Slots : DownloadDone(i)
    \/ \E i \in Slots : UploadDone(i)
    \/ \E i \in Slots : SendDone(i)
    \/ \E i \in Slots : Discard(i)

Spec == Init /\ [][Next]_vars

\* ------------------------------------------------- concurrent dispatching
\* A host that dispatches concurrently: it may call the handler in the next
\* idle slot while other calls are suspended at an await.  To keep the
\* product of the frames small the events and the store's answers are a
\* sample: a plain and an encrypted "image/heic" message from different
\* rooms and an "image/heif" message; the image or its ciphertext.
ConcInfo(mimetype) == Some([mimetype |-> Some(mimetype), width |-> 3, height |-> 3])
ConcEvents ==
    {[room_id |-> "!abc:example.org",
      content |-> [msgtype |-> "m.image", info |-> ConcInfo("image/heic"),
                   url |-> Some(PlainUrl), file |-> None]],
     [room_id |-> "!xyz:example.org",
      content |-> [msgtype |-> "m.image", info |-> ConcInfo("image/heic"),
                   url |-> None, file |-> Some(SomeFile)]],
     [room_id |-> "!abc:example.org",
      content |-> [msgtype |-> "m.image", info |-> ConcInfo("image/heif"),
                   url |-> Some(PlainUrl), file |-> None]]}
ConcBlobs == {Plain(HeicImage(2, 1, "RGB")),
              Cipher(HeicImage(2, 1, "RGB"), 1, 1)}

InitConc == Init /\ cfg \in {None, Some({"!abc:example.org"})}

\* slots are taken in order: which idle slot runs a call makes no difference
ConcDeliver(i) ==
    /\ \A j \in Slots : j < i => frame[j].pc # "idle"
    /\ \E e \in ConcEvents : hate_heif_message(i, e)

ConcDownloadDone(i) ==
    \/ download_media(i, FALSE, NoBytes, 1, 1)
    \/ \E bytes \in ConcBlobs, k \in FreshKeys(frame[i]),
          v \in FreshIVs(frame[i]) :
           download_media(i, TRUE, bytes, k, v)

NextConc ==
    \/ start
    \/ \E i \in Slots : ConcDeliver(i)
    \/ \E i \in Slots : ConcDownloadDone(i)
    \/ \E i \in Slots : UploadDone(i)
    \/ \E i \in Slots : SendDone(i)

SpecConc == InitConc /\ [][NextConc]_vars

\* every collaborator call that is awaited returns or fails in the end
FairConc ==
    /\ SpecConc
    /\ \A i \in Slots : WF_vars(ConcDownloadDone(i))
    /\ \A i \in Slots : WF_vars(UploadDone(i))
    /\ \A i \in Slots : WF_vars(SendDone(i))

\* ================================================================== claims
Frames == {frame[i] : i \in Slots}
Running(f) == f.pc # "idle"
Terminal(f) == f.pc \in {"returned", "raised"}
SeqSet(q) == {q[n] : n \in DOMAIN q}
CalledFns(f) == {c.fn : c \in SeqSet(f.calls)}
FailedFns(f) == {c.fn : c \in {x \in SeqSet(f.calls) : ~x.ok}}
\* messages handed to send_message, in flight or delivered
Messages(f) == SeqSet(f.sent) \cup SeqSet(f.sending)
\* byte buffers handed to upload_media, in flight or stored
UploadedBytes(f) ==
    {u.args.data : u \in SeqSet(f.uploads)} \cup
    {a.data : a \in SeqSet(f.uploading)}
NothingPublished(f) ==
    /\ f.uploading = None /\ f.uploads = <<>>
    /\ f.sending = None /\ f.sent = <<>>
    /\ CalledFns(f) \cap {"upload_media", "send_message"} = {}
NoCollaboratorCall(f) ==
    /\ NothingPublished(f)
    /\ f.fetch = ""
    /\ "download_media" \notin CalledFns(f)
\* the allow-list rule, on the configured value
RoomAllowed(e) == cfg = None \/ cfg[1] = {} \/ e.room_id \in cfg[1]
\* the three eligibility rules of the filter
Eligible(e) ==
    /\ RoomAllowed(e)
    /\ e.content.msgtype \in {"m.image", "m.file"}
    /\ e.content.info # None
    /\ e.content.info[1].mimetype = Some("image/heic")
PastFilter(f) == f.fetch # "" \/ f.outcome \in {"no_file", "sent"}

\* C1: a handler that reached the publish step entered the send function
\* matching the download function it entered (encrypted with encrypted, plain
\* with plain); is_enc is assigned by then, and once assigned it keeps its
\* value until the call is over.
C1_BranchesAgree ==
    \A f \in Frames :
        f.publish # "" =>
            /\ f.is_enc # None
            /\ f.is_enc[1] = (f.fetch = "download_encrypted_media")
            /\ f.publish = "send_encrypted_message"
                   <=> f.fetch = "download_encrypted_media"
            /\ f.publish = "send_unencrypted_message"
                   <=> f.fetch = "download_unencrypted_media"
C1_FlagStable ==
    \A i \in Slots :
        (frame[i].is_enc # None /\ frame'[i].pc # "idle")
            => frame'[i].is_enc = frame[i].is_enc
C1_PublishMatchesFetch == [](C1_BranchesAgree) /\ [][C1_FlagStable]_vars
C1_Witness ==
    \E f \in Frames :
        /\ f.outcome = "sent"
        /\ f.fetch = "download_encrypted_media"
        /\ f.publish = "send_encrypted_message"

\* C2: while is_enc is true every buffer handed to upload_media is the
\* ciphertext encrypt_attachment returned, never the JPEG; a locator under
\* which ciphertext was stored appears only inside the EncryptedFile of a
\* message, a locator under which plaintext was stored only as a plain url.
C2_NoLeak ==
    \A f \in Frames :
        /\ f.is_enc = Some(TRUE) =>
               \A b \in UploadedBytes(f) :
                   /\ b.enc
                   /\ b # f.img
                   /\ f.img_enc # None
                   /\ b = f.img_enc[1]
                   /\ f.img_enc = encrypt_attachment(f.img, b.key, b.iv)
        /\ \A u \in SeqSet(f.uploads) : \A g \in Frames : \A m \in Messages(g) :
               /\ u.args.data.enc => m.content.url # Some(u.uri)
               /\ ~u.args.data.enc =>
                      (m.content.file = None
                           \/ m.content.file[1].url # Some(u.uri))
        /\ \A m \in Messages(f) :
               \E u \in SeqSet(f.uploads) :
                   IF u.args.data.enc
                   THEN m.content.file # None /\ m.content.file[1].url = Some(u.uri)
                   ELSE m.content.url = Some(u.uri)
C2_Witness ==
    \E f \in Frames :
        /\ f.outcome = "sent"
        /\ f.is_enc = Some(TRUE)
        /\ \E u \in SeqSet(f.uploads) : u.args.data.enc

\* C3 (as claimed): a handler entered with a message that fails eligibility
\* has returned, without an exception and without a download, upload or send.
C3_IneligibleIsSilent ==
    \A f \in Frames :
        (Running(f) /\ ~Eligible(f.evt)) =>
            /\ f.pc = "returned"
            /\ NoCollaboratorCall(f)

\* C4: a handler gets past the filter exactly when the room passes the
\* allow-list, the kind is m.image or m.file and the declared MIME type is
\* exactly "image/heic".
C4_FilterIsExact ==
    \A f \in Frames : Running(f) => (PastFilter(f) <=> Eligible(f.evt))
C4_Witness ==
    \E f \in Frames :
        /\ f.outcome = "not_heic"
        /\ f.evt.content.info[1].mimetype = Some("image/HEIC")
        /\ RoomAllowed(f.evt)

\* C5: with a non-empty configured allow-list an event from a room outside
\* it is turned away by the room rule whatever its kind, media info and MIME
\* type; with an empty or absent one self.rooms is None after start and the
\* room rule turns no event away.
C5_RoomRuleFirst ==
    /\ started /\ (cfg = None \/ cfg[1] = {}) => rooms = None
    /\ \A f \in Frames :
           Running(f) => (f.outcome = "not_in_rooms" <=> ~RoomAllowed(f.evt))
C5_Witness ==
    \E f \in Frames :
        /\ f.outcome = "not_in_rooms"
        /\ f.evt.content.msgtype = "m.image"
        /\ f.evt.content.info = None

\* C6 (as claimed): the filter never ends in an exception, whatever fields
\* the message lacks.
C6_FilterNeverRaises ==
    \A f \in Frames : ~(f.pc = "raised" /\ f.fetch = "")

\* C7: when download_media, decrypt_attachment, Image.open or Image.save
\* failed in a handler, that handler uploads nothing and sends nothing.
C7_FailureAborts ==
    \A f \in Frames :
        FailedFns(f) \cap {"download_media", "decrypt_attachment",
                           "Image.open", "Image.save"} # {}
            => /\ NothingPublished(f)
               /\ f.pc = "raised"
C7_Witness ==
    \E f \in Frames : "Image.save" \in FailedFns(f)

\* C8: in a handler that fetched through the encrypted file reference, a
\* hash mismatch of the received bytes ends the call in decrypt_attachment's
\* exception with nothing published, and whatever reached the decoder is
\* decrypt_attachment of the received bytes under the stored key, hash, iv.
C8_VerifiedBeforeDecode ==
    \A f \in Frames :
        (f.fetch = "download_encrypted_media"
             /\ Call("download_media", TRUE) \in SeqSet(f.calls)) =>
            LET file == f.evt.content.file[1]
                d == decrypt_attachment(f.raw, file.key, file.hashes.sha256,
                                        file.iv)
            IN  /\ sha256(f.raw) # file.hashes.sha256 =>
                       /\ f.pc = "raised"
                       /\ f.outcome = "decrypt_attachment"
                       /\ NothingPublished(f)
                       /\ "Image.open" \notin CalledFns(f)
                /\ ("Image.open" \in CalledFns(f) \/ f.publish # "") =>
                       /\ d.ok
                       /\ f.data = d.bytes
C8_Witness ==
    \E f \in Frames :
        /\ f.outcome = "decrypt_attachment"
        /\ f.raw.enc
        /\ f.raw.key = f.evt.content.file[1].key

\* C9: the width and height of every message handed to send_message are the
\* size read back from the JPEG the handler encoded.
C9_PublishedSizeIsMeasured ==
    \A f \in Frames : \A m \in Messages(f) :
        /\ Image_open(f.img).ok
        /\ f.img.body.fmt = "jpeg"
        /\ m.content.info[1].width = Image_open(f.img).size[1]
        /\ m.content.info[1].height = Image_open(f.img).size[2]
C9_Witness ==
    \E f \in Frames :
        /\ f.outcome = "sent"
        /\ f.sent[1].content.info[1].width = 2
        /\ f.sent[1].content.info[1].height = 1

\* C10: every message handed to send_message references the locator of an
\* upload_media call that succeeded earlier in the same handler, and a
\* finished handler with an upload that no sent message references is one
\* whose send_message failed.
Referenced(m, uri) ==
    \/ m.content.url = Some(uri)
    \/ m.content.file # None /\ m.content.file[1].url = Some(uri)
C10_NoPartialPublish ==
    \A f \in Frames :
        /\ ("send_message" \in CalledFns(f) \/ f.sending # None) =>
               \E n \in DOMAIN f.calls : f.calls[n] = Call("upload_media", TRUE)
        /\ \A n \in DOMAIN f.calls :
               f.calls[n].fn = "send_message" =>
                   \E k \in 1..(n - 1) : f.calls[k] = Call("upload_media", TRUE)
        /\ \A m \in Messages(f) :
               \E u \in SeqSet(f.uploads) : Referenced(m, u.uri)
        /\ (Terminal(f) /\ \E u \in SeqSet(f.uploads) :
                               \A m \in SeqSet(f.sent) : ~Referenced(m, u.uri))
               => (f.pc = "raised" /\ f.outcome = "send_message")
C10_Witness ==
    \E f \in Frames :
        /\ f.pc = "raised"
        /\ f.outcome = "send_message"
        /\ f.uploads # <<>>
        /\ f.sent = <<>>

\* C11: a handler that ended by sending made, in this order and each once
\* and successfully, download_media, (decrypt_attachment,) Image.open,
\* Image.save, Image.open, (encrypt_attachment,) upload_media, send_message,
\* and one upload and one message came of it.
Ok(fns) == [n \in DOMAIN fns |-> Call(fns[n], TRUE)]
C11_OneOfEach ==
    \A f \in Frames :
        f.outcome = "sent" =>
            /\ f.pc = "returned"
            /\ f.calls =
                   Ok(<<"download_media">>
                      \o (IF f.is_enc = Some(TRUE)
                          THEN <<"decrypt_attachment">> ELSE <<>>)
                      \o <<"Image.open", "Image.save", "Image.open">>
                      \o (IF f.is_enc = Some(TRUE)
                          THEN <<"encrypt_attachment">> ELSE <<>>)
                      \o <<"upload_media", "send_message">>)
            /\ Len(f.uploads) = 1
            /\ Len(f.sent) = 1
            /\ f.uploading = None /\ f.sending = None
C11_Witness ==
    \E f \in Frames :
        /\ f.outcome = "sent"
        /\ f.is_enc = Some(FALSE)
        /\ Len(f.calls) = 6

\* C12: the EncryptedFile of a message sent on the encrypted path holds the
\* key, iv, hashes and version encrypt_attachment returned in this handler
\* for the JPEG, and the locator under which that ciphertext was stored; its
\* key, iv, hashes and locator all differ from those of the inbound reference.
C12_FreshReference ==
    \A f \in Frames :
        f.publish = "send_encrypted_message" =>
            \A m \in Messages(f) :
                LET out == m.content.file[1]
                    in == f.evt0.content.file[1]
                    e == encrypt_attachment(f.img, out.key, out.iv)
                IN  /\ f.img_enc = e
                    /\ out.hashes = e[2].hashes
                    /\ out.version = e[2].version
                    /\ \E u \in SeqSet(f.uploads) :
                           u.args.data = e[1] /\ out.url = Some(u.uri)
                    /\ out.key # in.key
                    /\ out.iv # in.iv
                    /\ out.hashes # in.hashes
                    /\ out.url # in.url
                    /\ out.url # f.evt0.content.url
C12_Witness ==
    \E f \in Frames :
        /\ f.outcome = "sent"
        /\ f.publish = "send_encrypted_message"
        /\ f.sent[1].content.file[1].key # f.evt0.content.file[1].key

\* C13: every message handed to send_message declares the content type
\* "image/jpeg", and every upload_media call is made with mime type
\* "image/jpeg".
UploadCalls(f) ==
    {u.args : u \in SeqSet(f.uploads)} \cup SeqSet(f.uploading)
C13_AlwaysJpeg ==
    \A f \in Frames :
        /\ \A m \in Messages(f) :
               /\ m.content.info # None
               /\ m.content.info[1].mimetype = Some("image/jpeg")
               /\ m.content.info[1].mimetype # f.evt0.content.info[1].mimetype
        /\ \A a \in UploadCalls(f) : a.mime_type = "image/jpeg"
C13_Witness ==
    \E f \in Frames :
        /\ f.outcome = "sent"
        /\ f.publish = "send_unencrypted_message"
        /\ f.evt0.content.info[1].mimetype = Some("image/heic")
        /\ f.sent[1].content.info[1].mimetype = Some("image/jpeg")

\* C14: with handlers interleaved at their awaits, whether a handler gets
\* past the filter, its encryption mode, and the room, size and locator of
\* the message it sends are fixed by its own event, the allow-list and the
\* bytes it fetched itself; a step changes one frame only and, once start has
\* run, neither the configuration nor self.rooms.
C14_OwnInputsOnly ==
    \A i \in Slots :
        LET f == frame[i]
        IN  Running(f) =>
                /\ PastFilter(f) <=> Eligible(f.evt0)
                /\ f.is_enc # None =>
                       f.is_enc[1] = (f.evt0.content.url \in {None, Some("")})
                /\ \A m \in Messages(f) :
                       /\ m.room_id = f.evt0.room_id
                       /\ (m.content.file # None) = f.is_enc[1]
                       /\ m.content.info[1].width = Image_open(f.data).size[1]
                       /\ m.content.info[1].height = Image_open(f.data).size[2]
                       /\ \E u \in SeqSet(f.uploads) : Referenced(m, u.uri)
                       /\ \A j \in Slots \ {i} :
                              \A u \in SeqSet(frame[j].uploads) :
                                  ~Referenced(m, u.uri)
C14_Isolated ==
    /\ started => (rooms' = rooms /\ cfg' = cfg)
    /\ \A i \in Slots :
           frame'[i] # frame[i] =>
               \A j \in Slots \ {i} : frame'[j] = frame[j]
C14_Independent == [](C14_OwnInputsOnly) /\ [][C14_Isolated]_vars
C14_Witness ==
    \E i, j \in Slots :
        /\ frame[i].outcome = "sent"
        /\ frame[j].pc = "await_send"
        /\ frame[i].evt0.room_id # frame[j].evt0.room_id
        /\ frame[i].is_enc # frame[j].is_enc

\* C15: two handlers called with the same event agree on eligibility and on
\* the download function; when both ended by sending, each made its own
\* download, upload and send, and the two messages reference two locators.
C15_NoDeduplication ==
    \A i, j \in Slots :
        LET f == frame[i]
            g == frame[j]
        IN  (i # j /\ Running(f) /\ Running(g) /\ f.evt0 = g.evt0) =>
                /\ PastFilter(f) <=> PastFilter(g)
                /\ f.fetch = g.fetch
                /\ (f.is_enc # None /\ g.is_enc # None) => f.is_enc = g.is_enc
                /\ (f.outcome = "sent" /\ g.outcome = "sent") =>
                       /\ Len(f.sent) = 1 /\ Len(g.sent) = 1
                       /\ Len(f.uploads) = 1 /\ Len(g.uploads) = 1
                       /\ f.uploads[1].uri # g.uploads[1].uri
                       /\ Referenced(f.sent[1], f.uploads[1].uri)
                       /\ Referenced(g.sent[1], g.uploads[1].uri)
                       /\ Call("download_media", TRUE) \in SeqSet(f.calls)
                       /\ Call("download_media", TRUE) \in SeqSet(g.calls)
C15_Witness ==
    \E i, j \in Slots :
        /\ i # j
        /\ frame[i].evt0 = frame[j].evt0
        /\ frame[i].outcome = "sent"
        /\ frame[j].outcome = "sent"

\* C16 (as claimed): when a handler has ended, the event it was called with
\* has the content it was delivered with.
C16_EventUnchanged ==
    \A f \in Frames : Terminal(f) => f.evt = f.evt0

\* C17 (as claimed): an eligible message with neither a plain url nor an
\* encrypted file ends the handler in a failure, not in a return.
NoReference(e) == ~Truthy(e.content.url) /\ e.content.file = None
C17_MalformedFails ==
    \A f \in Frames :
        (Running(f) /\ Eligible(f.evt0) /\ NoReference(f.evt0)) =>
            /\ f.pc = "raised"
            /\ NoCollaboratorCall(f)

\* C17 (amended): an eligible message with neither a plain url nor an
\* encrypted file makes the handler log a warning and return, with no
\* exception and no download, upload or send; the warning is what tells it
\* from the returns of the filter, which log none.
C17_MalformedReturns ==
    \A f \in Frames :
        /\ (Running(f) /\ Eligible(f.evt0) /\ NoReference(f.evt0)) =>
               /\ f.pc = "returned"
               /\ f.outcome = "no_file"
               /\ "warning" \in SeqSet(f.log)
               /\ NoCollaboratorCall(f)
        /\ "warning" \in SeqSet(f.log) => f.outcome = "no_file"
C17_Witness ==
    \E f \in Frames :
        /\ f.outcome = "no_file"
        /\ f.evt0.content.url = None
        /\ f.evt0.content.file = None

\* C18: in a handler download_media, upload_media and send_message are each
\* called at most once, and a call that failed is the last call the handler
\* makes: no send follows a failed upload, nothing follows a failed send.
Count(f, fn) == Cardinality({n \in DOMAIN f.calls : f.calls[n].fn = fn})
C18_NoRetry ==
    \A f \in Frames :
        /\ \A fn \in {"download_media", "upload_media", "send_message"} :
               Count(f, fn) <= 1
        /\ \A n \in DOMAIN f.calls :
               ~f.calls[n].ok =>
                   /\ n = Len(f.calls)
                   /\ f.pc = "raised"
                   /\ f.uploading = None
                   /\ f.sending = None
        /\ Len(f.uploads) <= 1
        /\ Len(f.sent) <= 1
C18_Witness ==
    \E f \in Frames :
        /\ f.outcome = "upload_media"
        /\ Call("upload_media", FALSE) \in SeqSet(f.calls)

\* C19: when every awaited call returns or fails in the end, a handler that
\* was called ends; it ends in exactly one of skip (a return without a
\* message), published (a return after send_message) and failed (an
\* exception), and its frame does not change afterwards.
Skipped(f) ==
    /\ f.pc = "returned"
    /\ f.outcome \in {"not_in_rooms", "not_media", "not_heic", "no_file"}
    /\ f.sent = <<>>
Published(f) == f.pc = "returned" /\ f.outcome = "sent" /\ Len(f.sent) = 1
Failed(f) ==
    /\ f.pc = "raised"
    /\ f.outcome \in {"AttributeError", "download_media", "decrypt_attachment",
                      "Image.open", "Image.save", "upload_media",
                      "send_message"}
    /\ f.sent = <<>>
C19_OneOutcome ==
    \A f \in Frames :
        /\ Terminal(f) <=> f.outcome # ""
        /\ Terminal(f) =>
               Cardinality({b \in {<<1, Skipped(f)>>, <<2, Published(f)>>,
                                   <<3, Failed(f)>>} : b[2]}) = 1
C19_Final ==
    \A i \in Slots : Terminal(frame[i]) => frame'[i] = frame[i]
C19_Terminates ==
    /\ [](C19_OneOutcome)
    /\ [][C19_Final]_vars
    /\ \A i \in Slots : Running(frame[i]) ~> Terminal(frame[i])
C19_Witness ==
    \E i, j \in Slots :
        /\ Published(frame[i])
        /\ Failed(frame[j])
        /\ frame[j].outcome = "decrypt_attachment"

\* C20: an eligible event carrying both a url and a file is handled as a
\* plain one: fetched by download_unencrypted_media, never decrypted or
\* hash-checked, and answered with a message that has a url and no file.
\* download_encrypted_media is entered exactly when the url is absent (None
\* or empty) and the file is present. Every message handed to send_message
\* has exactly one of url and file.
BothReferences(e) == Truthy(e.content.url) /\ e.content.file # None
C20_PlainPathWins ==
    \A f \in Frames :
        (Running(f) /\ Eligible(f.evt0) /\ BothReferences(f.evt0)) =>
            /\ f.fetch = "download_unencrypted_media"
            /\ f.is_enc \in {None, Some(FALSE)}
            /\ "decrypt_attachment" \notin CalledFns(f)
            /\ f.publish \in {"", "send_unencrypted_message"}
            /\ \A m \in Messages(f) :
                   Truthy(m.content.url) /\ m.content.file = None
C20_EncryptedOnlyWithoutUrl ==
    \A f \in Frames :
        (Running(f) /\ Eligible(f.evt0)) =>
            (f.fetch = "download_encrypted_media" <=>
                 (~Truthy(f.evt0.content.url) /\ f.evt0.content.file # None))
C20_OneReferencePublished ==
    \A f \in Frames : \A m \in Messages(f) :
        Truthy(m.content.url) # (m.content.file # None)
C20_OneReference ==
    /\ C20_PlainPathWins
    /\ C20_EncryptedOnlyWithoutUrl
    /\ C20_OneReferencePublished
C20_Witness ==
    \E f \in Frames :
        /\ Eligible(f.evt0) /\ BothReferences(f.evt0)
        /\ f.outcome = "sent"
        /\ \E m \in SeqSet(f.sent) : m.content.file = None

====
